---- MODULE Spec2Model ----
(***************************************************************************)
(* A model of mooshak_problems_targz.py: build_archive sorts the candidate *)
(* problem directories, resolves one timeout per candidate, validates each *)
(* candidate, stages the accepted ones in a temporary directory, builds    *)
(* the Content.xml manifest and packs everything in a tar archive.         *)
(*                                                                         *)
(* Strings are sequences of character codes, so that Python's string       *)
(* comparison, the substring test "in", Path.stem and str(int) are         *)
(* computed as the interpreter computes them.  A path is the sequence of   *)
(* its parts (pathlib's Path.parts); Path(".") is the empty sequence.      *)
(***************************************************************************)
EXTENDS Integers, Sequences, FiniteSets, TLC

VARIABLES
    args,       \* the arguments as passed: [problems, timeouts]
    fs,         \* the source tree: candidate path -> what is on disk there
    problems,   \* the local list `problems` (sorted in place by line 48)
    timeouts,   \* the local `timeouts` (rebound to a list by lines 51-68)
    pc,         \* position in build_archive
    i,          \* index of the candidate the for loop of line 79 is at
    archivefile, \* the output archive: [exists, open, opens, closes, entries]
    tmpdir,     \* the temporary staging directory: [exists, files]
    xmlproblems, \* the children of the Problems element: the Problem elements
    log,        \* the "Ignoring problem" warnings: a sequence of [p, reason]
    error       \* the exception that left build_archive, or "none"

vars == <<args, fs, problems, timeouts, pc, i, archivefile, tmpdir, xmlproblems, log, error>>

(***************************************************************************)
(* Bounds of the model.                                                    *)
(***************************************************************************)
MaxProblems == 3
MaxTimeouts == 3
MaxDirs == 2
MaxTestDirs == 1

(***************************************************************************)
(* Strings.                                                                *)
(***************************************************************************)
sEmpty == << >>
sA == <<65>>
sB == <<66>>
sAB == <<65, 66>>
sAA == <<65, 65>>
sLowerA == <<97>>
sOne == <<49>>
sX == <<120>>
sOneDashTwo == <<49, 45, 50>>
sOneDotJ == <<49, 46, 106>>
extIn == <<46, 105, 110>>
extOut == <<46, 111, 117, 116>>
sTests == <<116, 101, 115, 116, 115>>
sDotTests == <<46>> \o sTests
sDescription == <<100, 101, 115, 99, 114, 105, 112, 116, 105, 111, 110, 46, 104, 116, 109, 108>>
sContentXml == <<67, 111, 110, 116, 101, 110, 116, 46, 120, 109, 108>>

\* string.ascii_uppercase
ascii_uppercase == [k \in 1..26 |-> 64 + k]

Min(a, b) == IF a < b THEN a ELSE b

\* Python's str.__lt__: lexicographic on code points, a proper prefix first.
StrLess(a, b) ==
    \E k \in 1..(Min(Len(a), Len(b)) + 1) :
        /\ \A j \in 1..(k - 1) : a[j] = b[j]
        /\ \/ k > Len(a) /\ k <= Len(b)
           \/ k <= Len(a) /\ k <= Len(b) /\ a[k] < b[k]

\* Python's `x in s` for strings: x occurs in s as a contiguous substring.
InStr(x, s) ==
    \E k \in 0..(Len(s) - Len(x)) : \A j \in 1..Len(x) : s[k + j] = x[j]

\* str(t) for an int: decimal digits, a leading '-' when negative.
RECURSIVE Digits(_)
Digits(n) == IF n < 10 THEN <<48 + n>> ELSE Digits(n \div 10) \o <<48 + (n % 10)>>

Str(t) == IF t < 0 THEN <<45>> \o Digits(0 - t) ELSE Digits(t)

(***************************************************************************)
(* Paths (pathlib).                                                        *)
(***************************************************************************)
\* Path.name: the last part, "" for Path(".").
Name(p) == IF Len(p) = 0 THEN sEmpty ELSE p[Len(p)]

\* PurePath.__lt__: the parts compared as lists of strings.
PathLess(p, q) ==
    \E k \in 1..(Min(Len(p), Len(q)) + 1) :
        /\ \A j \in 1..(k - 1) : p[j] = q[j]
        /\ \/ k > Len(p) /\ k <= Len(q)
           \/ k <= Len(p) /\ k <= Len(q) /\ StrLess(p[k], q[k])

\* parent / part: joining an empty part gives the parent itself.
Join(parent, part) == IF Len(part) = 0 THEN parent ELSE Append(parent, part)

\* Path.suffix and Path.stem of a file name: the last '.' splits, unless it
\* is the first or the last character.
LastDot(f) ==
    IF \E k \in 1..Len(f) : f[k] = 46
    THEN CHOOSE k \in 1..Len(f) : f[k] = 46 /\ \A j \in (k + 1)..Len(f) : f[j] # 46
    ELSE 0

Stem(f) ==
    LET d == LastDot(f)
    IN  IF d > 1 /\ d < Len(f) THEN SubSeq(f, 1, d - 1) ELSE f

\* fnmatch of "*" + ext against a file name.
Matches(f, ext) ==
    /\ Len(f) >= Len(ext)
    /\ SubSeq(f, Len(f) - Len(ext) + 1, Len(f)) = ext

\* problems.sort(): the list in ascending path order.
RECURSIVE InsertPath(_, _)
InsertPath(p, s) ==
    IF s = << >> THEN <<p>>
    ELSE IF PathLess(p, Head(s)) THEN <<p>> \o s
    ELSE <<Head(s)>> \o InsertPath(p, Tail(s))

\* Mutant: the sort of line 48 left out.
SortPaths_Unsorted(s) == s

RECURSIVE SortPaths(_)
SortPaths(s) ==
    IF s = << >> THEN << >>
    ELSE InsertPath(s[Len(s)], SortPaths(SubSeq(s, 1, Len(s) - 1)))

\* sorted(list(testsdir.glob(pattern))): the matching files of one
\* directory, ascending by path, that is by file name.
RECURSIVE SortedFiles(_)
SortedFiles(S) ==
    IF S = {} THEN << >>
    ELSE LET m == CHOOSE f \in S : \A g \in S \ {f} : StrLess(f, g)
         IN  <<m>> \o SortedFiles(S \ {m})

Glob(files, ext) == SortedFiles({f \in files : Matches(f, ext)})

Stems(fileseq) == [k \in 1..Len(fileseq) |-> Stem(fileseq[k])]

(***************************************************************************)
(* The timeout argument: an int, a list (of ints or of other values), or   *)
(* a value of another type.                                                *)
(***************************************************************************)
IntElem(v) == [isint |-> TRUE, v |-> v]
NonInt == [isint |-> FALSE, v |-> 0]

IntArg(v) == [kind |-> "int", val |-> v, items |-> << >>]
ListArg(s) == [kind |-> "list", val |-> 0, items |-> s]
OtherArg == [kind |-> "other", val |-> 0, items |-> << >>]

\* Mutant: a short list padded with its first value instead of its last.
ResolveTimeouts_PadFirst(ts, n) ==
    IF ts.kind = "int"
    THEN [err |-> "none", val |-> [k \in 1..n |-> IntElem(ts.val)]]
    ELSE IF ts.kind = "list"
    THEN IF \E k \in 1..Len(ts.items) : ~ts.items[k].isint
         THEN [err |-> "ValueError", val |-> ts.items]
         ELSE IF Len(ts.items) # n
         THEN IF Len(ts.items) = 1
              THEN [err |-> "none", val |-> [k \in 1..n |-> ts.items[1]]]
              ELSE IF Len(ts.items) = 0
              THEN [err |-> "IndexError", val |-> ts.items]
              ELSE [err |-> "none",
                    val |-> ts.items \o
                            [k \in 1..(n - Len(ts.items)) |-> ts.items[1]]]
         ELSE [err |-> "none", val |-> ts.items]
    ELSE [err |-> "ValueError", val |-> ts.items]

\* Mutant: the isinstance check of the elements (lines 55-58) left out.
ResolveTimeouts_NoTypeCheck(ts, n) ==
    IF ts.kind = "int"
    THEN [err |-> "none", val |-> [k \in 1..n |-> IntElem(ts.val)]]
    ELSE IF ts.kind = "list"
    THEN IF Len(ts.items) # n
         THEN IF Len(ts.items) = 1
              THEN [err |-> "none", val |-> [k \in 1..n |-> ts.items[1]]]
              ELSE IF Len(ts.items) = 0
              THEN [err |-> "IndexError", val |-> ts.items]
              ELSE [err |-> "none",
                    val |-> ts.items \o
                            [k \in 1..(n - Len(ts.items)) |-> ts.items[Len(ts.items)]]]
         ELSE [err |-> "none", val |-> ts.items]
    ELSE [err |-> "ValueError", val |-> ts.items]

\* Lines 51-68: the list `timeouts` is rebound to, or the exception raised.
ResolveTimeouts(ts, n) ==
    IF ts.kind = "int"
    THEN [err |-> "none", val |-> [k \in 1..n |-> IntElem(ts.val)]]
    ELSE IF ts.kind = "list"
    THEN IF \E k \in 1..Len(ts.items) : ~ts.items[k].isint
         THEN [err |-> "ValueError", val |-> ts.items]
         ELSE IF Len(ts.items) # n
         THEN IF Len(ts.items) = 1
              THEN [err |-> "none", val |-> [k \in 1..n |-> ts.items[1]]]
              ELSE IF Len(ts.items) = 0
              THEN [err |-> "IndexError", val |-> ts.items]
              ELSE [err |-> "none",
                    val |-> ts.items \o
                            [k \in 1..(n - Len(ts.items)) |-> ts.items[Len(ts.items)]]]
         ELSE [err |-> "none", val |-> ts.items]
    ELSE [err |-> "ValueError", val |-> ts.items]

(***************************************************************************)
(* Validation of one candidate, lines 80-122.  lay is what the disk holds  *)
(* at p: [isdir, desc, tests, files], files being the names in p/tests.    *)
(***************************************************************************)
Inputs(lay) == Glob(lay.files, extIn)
Outputs(lay) == Glob(lay.files, extOut)

\* Mutant: the comparison of the stems (lines 115-122) left out.
Validate_NoStemCheck(p, lay) ==
    IF ~lay.isdir THEN "notdir"
    ELSE IF ~InStr(Name(p), ascii_uppercase) THEN "name"
    ELSE IF ~lay.desc THEN "description"
    ELSE IF ~lay.tests THEN "tests"
    ELSE IF Len(Inputs(lay)) = 0 THEN "inputs"
    ELSE IF Len(Outputs(lay)) = 0 THEN "outputs"
    ELSE "ok"

Validate(p, lay) ==
    IF ~lay.isdir THEN "notdir"
    ELSE IF ~InStr(Name(p), ascii_uppercase) THEN "name"
    ELSE IF ~lay.desc THEN "description"
    ELSE IF ~lay.tests THEN "tests"
    ELSE IF Len(Inputs(lay)) = 0 THEN "inputs"
    ELSE IF Len(Outputs(lay)) = 0 THEN "outputs"
    ELSE IF Stems(Inputs(lay)) # Stems(Outputs(lay)) THEN "mismatch"
    ELSE "ok"

(***************************************************************************)
(* Staging and manifest of one accepted candidate, lines 124-149.          *)
(***************************************************************************)
\* zip(inputs, outputs, inputsstems)
ZipLen(lay) == Min(Len(Inputs(lay)), Len(Outputs(lay)))

\* Lines 140-143: the Test elements.
TestElements(pname, lay) ==
    [k \in 1..ZipLen(lay) |->
        [id     |-> pname \o sDotTests \o <<46>> \o Stems(Inputs(lay))[k],
         input  |-> Inputs(lay)[k],
         output |-> Outputs(lay)[k]]]

\* Lines 124-129: the Problem element as created, before it has children.
ProblemElement(pname, t) ==
    [id |-> pname, Name |-> pname, Title |-> pname,
     Description |-> sDescription, Timeout |-> Str(t), Tests |-> << >>]

\* Lines 137-143: the Tests child and its Test children.
WithTests(el, pname, lay) ==
    [el EXCEPT !.Tests = <<[id |-> pname \o sDotTests, tests |-> TestElements(pname, lay)]>>]

\* Line 131: Path(tmpdir) / pname, relative to the temporary directory.
ProblemDir(pname) == Join(<< >>, pname)

\* Path.mkdir without exist_ok raises FileExistsError on an existing path;
\* the temporary directory itself (the empty relative path) always exists.
MkdirFails(path, files) == path = << >> \/ path \in files

\* Mutant: the test files copied into tests/ itself, no directory per stem.
StagedTree_Flat(pname, lay) ==
    LET dir == Join(<< >>, pname)
        tdir == Append(dir, sTests)
    IN  {dir, Append(dir, sDescription), tdir}
        \cup {Append(tdir, Inputs(lay)[k]) : k \in 1..ZipLen(lay)}
        \cup {Append(tdir, Outputs(lay)[k]) : k \in 1..ZipLen(lay)}

\* Lines 132-147: what the staging of one problem creates.
StagedTree(pname, lay) ==
    LET dir == ProblemDir(pname)
        tdir == Append(dir, sTests)
    IN  {dir, Append(dir, sDescription), tdir}
        \cup {Join(tdir, Stems(Inputs(lay))[k]) : k \in 1..ZipLen(lay)}
        \cup {Append(Join(tdir, Stems(Inputs(lay))[k]), Inputs(lay)[k]) : k \in 1..ZipLen(lay)}
        \cup {Append(Join(tdir, Stems(Inputs(lay))[k]), Outputs(lay)[k]) : k \in 1..ZipLen(lay)}

\* Line 149: archivefile.add(problemdir, arcname=pname) adds the directory
\* and everything staged under it.
ArchiveEntry(pname, files) ==
    [arcname |-> pname,
     members |-> {f \in files : Len(f) >= 1 /\ f[1] = pname}]

\* Mutant: the directory made with mkdtemp and never removed.
TmpAfterExit_Left == tmpdir

\* Line 74: leaving the `with tempfile.TemporaryDirectory()` block, by its
\* end or by an exception, removes the directory and all it holds.
TmpAfterExit == [exists |-> FALSE, files |-> {}]

\* zip(map(Path, problems), timeouts) stops at the shorter of the two.
LoopLen == Min(Len(problems), Len(timeouts.items))

(***************************************************************************)
(* The steps of build_archive.                                             *)
(***************************************************************************)
\* Lines 48-70, no exception: the list is sorted and timeouts resolved.
Resolve ==
    /\ pc = "start"
    /\ LET sorted == SortPaths(problems)
           r == ResolveTimeouts(timeouts, Len(sorted))
       IN  /\ r.err = "none"
           /\ problems' = sorted
           /\ timeouts' = ListArg(r.val)
    /\ pc' = "resolved"
    /\ UNCHANGED <<args, fs, i, archivefile, tmpdir, xmlproblems, log, error>>

\* Lines 48-68, an exception leaves build_archive: the ValueError of lines
\* 58 and 68, or the IndexError of timeouts[-1] on an empty list, line 65.
ConfigError ==
    /\ pc = "start"
    /\ LET sorted == SortPaths(problems)
           r == ResolveTimeouts(timeouts, Len(sorted))
       IN  /\ r.err # "none"
           /\ problems' = sorted
           /\ error' = r.err
    /\ pc' = "aborted"
    /\ UNCHANGED <<args, fs, timeouts, i, archivefile, tmpdir, xmlproblems, log>>

\* Line 72: tarfile.open(archive, "w:gz") creates the archive file.
OpenArchive ==
    /\ pc = "resolved"
    /\ archivefile' = [exists |-> TRUE, open |-> TRUE, opens |-> archivefile.opens + 1,
                   closes |-> archivefile.closes, entries |-> << >>]
    /\ pc' = "opened"
    /\ UNCHANGED <<args, fs, problems, timeouts, i, tmpdir, xmlproblems, log, error>>

\* Lines 74-78: the temporary directory and the empty Problems element.
EnterTmp ==
    /\ pc = "opened"
    /\ tmpdir' = [exists |-> TRUE, files |-> {}]
    /\ xmlproblems' = << >>
    /\ i' = 1
    /\ pc' = "loop"
    /\ UNCHANGED <<args, fs, problems, timeouts, archivefile, log, error>>

\* Lines 79-122, a check fails: two warnings, then `continue`.
Ignore ==
    /\ pc = "loop"
    /\ i <= LoopLen
    /\ LET p == problems[i]
       IN  /\ Validate(p, fs[p]) # "ok"
           /\ log' = Append(log, [p |-> p, reason |-> Validate(p, fs[p])])
    /\ i' = i + 1
    /\ UNCHANGED <<args, fs, problems, timeouts, pc, archivefile, tmpdir, xmlproblems, error>>

\* Lines 79-149, every check passes and every mkdir succeeds: the Problem
\* element, the staged tree and the archive entry of one problem.
Stage ==
    /\ pc = "loop"
    /\ i <= LoopLen
    /\ LET p == problems[i]
           t == timeouts.items[i].v
           pname == Name(p)
           staged == tmpdir.files \cup StagedTree(pname, fs[p])
       IN  /\ Validate(p, fs[p]) = "ok"
           /\ ~MkdirFails(ProblemDir(pname), tmpdir.files)
           /\ xmlproblems' = Append(xmlproblems,
                                 WithTests(ProblemElement(pname, t), pname, fs[p]))
           /\ tmpdir' = [tmpdir EXCEPT !.files = staged]
           /\ archivefile' = [archivefile EXCEPT
                            !.entries = Append(@, ArchiveEntry(pname, staged))]
    /\ i' = i + 1
    /\ UNCHANGED <<args, fs, problems, timeouts, pc, log, error>>

\* Lines 79-132, every check passes and problemdir.mkdir raises
\* FileExistsError: the Problem element is already in the tree, the
\* exception leaves the with block (the directory is removed) and then
\* build_archive, with the archive still open.
StageRaise ==
    /\ pc = "loop"
    /\ i <= LoopLen
    /\ LET p == problems[i]
           t == timeouts.items[i].v
           pname == Name(p)
       IN  /\ Validate(p, fs[p]) = "ok"
           /\ MkdirFails(ProblemDir(pname), tmpdir.files)
           /\ xmlproblems' = Append(xmlproblems, ProblemElement(pname, t))
    /\ tmpdir' = TmpAfterExit
    /\ error' = "FileExistsError"
    /\ pc' = "aborted"
    /\ UNCHANGED <<args, fs, problems, timeouts, i, archivefile, log>>

\* Lines 151-161: Content.xml is written in the temporary directory.
WriteContent ==
    /\ pc = "loop"
    /\ i > LoopLen
    /\ tmpdir' = [tmpdir EXCEPT !.files = @ \cup {<<sContentXml>>}]
    /\ pc' = "written"
    /\ UNCHANGED <<args, fs, problems, timeouts, i, archivefile, xmlproblems, log, error>>

\* Lines 163-164 and the end of the with block: Content.xml is added, the
\* archive is closed, the temporary directory is removed.
CloseArchive ==
    /\ pc = "written"
    /\ archivefile' = [archivefile EXCEPT
                     !.entries = Append(@, [arcname |-> sContentXml,
                                            members |-> {<<sContentXml>>}]),
                     !.open = FALSE,
                     !.closes = @ + 1]
    /\ tmpdir' = TmpAfterExit
    /\ pc' = "done"
    /\ UNCHANGED <<args, fs, problems, timeouts, i, xmlproblems, log, error>>

\* An OSError raised by the file system inside the with block (an
\* unreadable source file in shutil.copy, a full disk in a write or in
\* archivefile.add): it leaves the with block and then build_archive.
IOFault ==
    /\ pc \in {"loop", "written"}
    /\ tmpdir' = TmpAfterExit
    /\ error' = "OSError"
    /\ pc' = "aborted"
    /\ UNCHANGED <<args, fs, problems, timeouts, i, archivefile, xmlproblems, log>>

Next ==
    \/ Resolve
    \/ ConfigError
    \/ OpenArchive
    \/ EnterTmp
    \/ Ignore
    \/ Stage
    \/ StageRaise
    \/ WriteContent
    \/ CloseArchive

NextIO == Next \/ IOFault

(***************************************************************************)
(* Inputs.  A candidate is a path and what the disk holds there.           *)
(***************************************************************************)
Layout(isdir, desc, tests, files) ==
    [isdir |-> isdir, desc |-> desc, tests |-> tests, files |-> files]

fOneIn == sOne \o extIn
fOneOut == sOne \o extOut

layNotDir == Layout(FALSE, FALSE, FALSE, {})
layNoDescription == Layout(TRUE, FALSE, TRUE, {fOneIn, fOneOut})
layNoTests == Layout(TRUE, TRUE, FALSE, {})
layNoInputs == Layout(TRUE, TRUE, TRUE, {fOneOut})
layNoOutputs == Layout(TRUE, TRUE, TRUE, {fOneIn})
layMismatch == Layout(TRUE, TRUE, TRUE, {fOneIn, fOneOut, sOneDashTwo \o extIn})
layOk == Layout(TRUE, TRUE, TRUE, {fOneIn, fOneOut})

CoreLayouts ==
    {layNotDir, layNoDescription, layNoTests, layNoInputs, layNoOutputs,
     layMismatch, layOk}

TestStems == {sOne, sOneDashTwo, sOneDotJ}
TestFiles == {s \o e : s \in TestStems, e \in {extIn, extOut}}

Cand(p, lay) == [p |-> p, lay |-> lay]

\* Directory names of every shape, the usual ones with every layout.
Candidates ==
    {Cand(p, lay) : p \in {<<sA>>, <<sB>>, <<sX, sA>>}, lay \in CoreLayouts}
    \cup {Cand(p, lay) : p \in {<< >>, <<sAB>>, <<sAA>>, <<sLowerA>>, <<sOne>>},
                         lay \in {layOk, layNoDescription}}

TimeoutArgs ==
    {IntArg(5), ListArg(<<IntElem(5), IntElem(12)>>), ListArg(<< >>),
     ListArg(<<IntElem(12), IntElem(5), IntElem(12)>>)}

\* Every shape of the timeout argument, over a few directories.
TimeoutCandidates ==
    {Cand(<<sA>>, layOk), Cand(<<sX, sA>>, layOk), Cand(<<sLowerA>>, layOk)}

TimeoutElems == {IntElem(5), IntElem(12), NonInt}

AllTimeoutArgs ==
    {IntArg(5), IntArg(12), OtherArg}
    \cup UNION {{ListArg(s) : s \in [1..n -> TimeoutElems]} : n \in 0..MaxTimeouts}

\* Every set of test files, in one directory.
TestCandidates ==
    {Cand(<<sA>>, Layout(TRUE, TRUE, TRUE, F)) : F \in SUBSET TestFiles}
    \cup {Cand(<< >>, layOk)}

TestTimeoutArgs == {IntArg(5), ListArg(<< >>)}

InitWith(Cands, TArgs, maxN) ==
    \E n \in 0..maxN : \E cs \in [1..n -> Cands] : \E ts \in TArgs :
        /\ \A a, b \in 1..n : cs[a].p = cs[b].p => cs[a].lay = cs[b].lay
        /\ args = [problems |-> [k \in 1..n |-> cs[k].p], timeouts |-> ts]
        /\ fs = [p \in {cs[k].p : k \in 1..n} |->
                    (CHOOSE c \in {cs[k] : k \in 1..n} : c.p = p).lay]
        /\ problems = [k \in 1..n |-> cs[k].p]
        /\ timeouts = ts
        /\ pc = "start"
        /\ i = 0
        /\ archivefile = [exists |-> FALSE, open |-> FALSE, opens |-> 0,
                      closes |-> 0, entries |-> << >>]
        /\ tmpdir = [exists |-> FALSE, files |-> {}]
        /\ xmlproblems = << >>
        /\ log = << >>
        /\ error = "none"

Init == InitWith(Candidates, TimeoutArgs, MaxDirs)
InitTimeouts == InitWith(TimeoutCandidates, AllTimeoutArgs, MaxProblems)
InitTests == InitWith(TestCandidates, TestTimeoutArgs, MaxTestDirs)

Spec == Init /\ [][Next]_vars
SpecTimeouts == InitTimeouts /\ [][Next]_vars
SpecTests == InitTests /\ [][Next]_vars
SpecIO == InitTimeouts /\ [][NextIO]_vars

(***************************************************************************)
(* Vocabulary of the properties, stated from the files on disk and not     *)
(* from the operators above.                                               *)
(***************************************************************************)
\* The loop is running or has ended normally.
Running == pc \in {"loop", "written", "done"}

\* The indexes of the candidates the loop has dealt with.
Processed == IF Running THEN 1..(i - 1) ELSE {}

\* Exactly one character, an uppercase ASCII letter.
IsUpperLetter(nm) == Len(nm) = 1 /\ nm[1] \in 65..90

InFiles(lay) == {f \in lay.files : Matches(f, extIn)}
OutFiles(lay) == {f \in lay.files : Matches(f, extOut)}
InStems(lay) == {Stem(f) : f \in InFiles(lay)}
OutStems(lay) == {Stem(f) : f \in OutFiles(lay)}

\* A set of stems as the sequence sorted lexicographically by stem.
RECURSIVE SortedStems(_)
SortedStems(S) ==
    IF S = {} THEN << >>
    ELSE LET m == CHOOSE x \in S : \A y \in S \ {x} : StrLess(x, y)
         IN  <<m>> \o SortedStems(S \ {m})

\* The problem at p was ignored (an "Ignoring problem" warning names it).
Ignored(p) == \E k \in 1..Len(log) : log[k].p = p

\* The value a string of decimal digits denotes, -1 when it is not one.
RECURSIVE DecimalValue(_)
DecimalValue(s) ==
    IF Len(s) = 0 THEN -1
    ELSE IF s[Len(s)] \notin 48..57 THEN -1
    ELSE IF Len(s) = 1 THEN s[1] - 48
    ELSE IF DecimalValue(SubSeq(s, 1, Len(s) - 1)) < 0 THEN -1
    ELSE DecimalValue(SubSeq(s, 1, Len(s) - 1)) * 10 + (s[Len(s)] - 48)

\* All Test elements of one Problem element.
TestsOf(el) == IF Len(el.Tests) = 0 THEN << >> ELSE el.Tests[1].tests

CountIds(nm) == Cardinality({k \in 1..Len(xmlproblems) : xmlproblems[k].id = nm})
CountEntries(nm) ==
    Cardinality({k \in 1..Len(archivefile.entries) : archivefile.entries[k].arcname = nm})

(***************************************************************************)
(* C1: every candidate whose base name is not exactly one uppercase ASCII  *)
(* letter is excluded (no Problem element, no staged directory, no archive *)
(* entry), and every other candidate that passes all checks is included.   *)
(***************************************************************************)
C1_NonLetterNamesExcluded ==
    Running =>
        /\ \A k \in 1..Len(xmlproblems) : IsUpperLetter(xmlproblems[k].id)
        /\ \A f \in tmpdir.files : f = <<sContentXml>> \/ IsUpperLetter(f[1])
        /\ \A k \in 1..Len(archivefile.entries) :
              \/ archivefile.entries[k].arcname = sContentXml
              \/ IsUpperLetter(archivefile.entries[k].arcname)
        /\ \A k \in Processed :
              (IsUpperLetter(Name(problems[k])) /\ ~Ignored(problems[k]))
                 => CountIds(Name(problems[k])) >= 1

(***************************************************************************)
(* C2: for n candidates and every valid shape of the timeout argument the  *)
(* resolved list has length n and is: n copies of a scalar; a list of      *)
(* length n unchanged; n copies of the element of a one-element list; a    *)
(* list of length k, 1 < k < n, followed by n-k copies of its last value.  *)
(***************************************************************************)
ValidShape(ts, n) ==
    \/ ts.kind = "int"
    \/ /\ ts.kind = "list"
       /\ \A k \in 1..Len(ts.items) : ts.items[k].isint
       /\ \/ Len(ts.items) = n
          \/ Len(ts.items) = 1
          \/ 1 < Len(ts.items) /\ Len(ts.items) < n

Documented(ts, n) ==
    IF ts.kind = "int" THEN [k \in 1..n |-> IntElem(ts.val)]
    ELSE IF Len(ts.items) = n THEN ts.items
    ELSE IF Len(ts.items) = 1 THEN [k \in 1..n |-> ts.items[1]]
    ELSE [k \in 1..n |-> IF k <= Len(ts.items) THEN ts.items[k]
                         ELSE ts.items[Len(ts.items)]]

C2_TimeoutsResolved ==
    (pc # "start" /\ ValidShape(args.timeouts, Len(args.problems))) =>
        /\ error \notin {"ValueError", "IndexError"}
        /\ timeouts.kind = "list"
        /\ Len(timeouts.items) = Len(args.problems)
        /\ timeouts.items = Documented(args.timeouts, Len(args.problems))

C2_Witness ==
    /\ pc = "resolved"
    /\ Len(args.problems) = 3
    /\ args.timeouts = ListArg(<<IntElem(5), IntElem(12)>>)
    /\ timeouts.items = <<IntElem(5), IntElem(12), IntElem(12)>>

(***************************************************************************)
(* C3: a timeout list with a non-integer element, or a timeout argument    *)
(* that is neither an int nor a list, aborts build_archive before the      *)
(* archive is opened and before the temporary directory is created: no     *)
(* archive file, no staged file.                                           *)
(***************************************************************************)
FatalConfig(ts) ==
    \/ ts.kind \notin {"int", "list"}
    \/ ts.kind = "list" /\ \E k \in 1..Len(ts.items) : ~ts.items[k].isint

C3_FatalConfigAbortsEarly ==
    (pc # "start" /\ FatalConfig(args.timeouts)) =>
        /\ pc = "aborted"
        /\ error = "ValueError"
        /\ ~archivefile.exists
        /\ archivefile.opens = 0
        /\ ~tmpdir.exists
        /\ tmpdir.files = {}
        /\ xmlproblems = << >>

C3_Witness ==
    /\ pc = "aborted"
    /\ error = "ValueError"
    /\ Len(args.problems) = 2
    /\ args.timeouts = ListArg(<<IntElem(5), NonInt>>)

(***************************************************************************)
(* C4: a candidate that is not a directory, or lacks description.html or   *)
(* the tests directory, or has no .in file, no .out file, or .in and .out  *)
(* stems that differ, is excluded entirely (no Problem element, no staged  *)
(* file, no archive entry, no part of its tests); its failure does not     *)
(* abort the run: the candidates after it are validated and the run ends   *)
(* with the archive closed and holding Content.xml, also with no survivor. *)
(***************************************************************************)
FailsListedCheck(lay) ==
    \/ ~lay.isdir
    \/ ~lay.desc
    \/ ~lay.tests
    \/ InFiles(lay) = {}
    \/ OutFiles(lay) = {}
    \/ InStems(lay) # OutStems(lay)

\* The processed candidates of base name nm that fail none of those checks.
Eligible(nm) ==
    {k \in Processed : Name(problems[k]) = nm /\ ~FailsListedCheck(fs[problems[k]])}

C4_FailedCandidateExcluded ==
    /\ Running =>
          /\ \A j \in 1..Len(problems) :
                LET nm == Name(problems[j])
                IN  /\ CountIds(nm) <= Cardinality(Eligible(nm))
                    /\ CountEntries(nm) <= Cardinality(Eligible(nm))
                    /\ (\E f \in tmpdir.files : f[1] = nm) => Eligible(nm) # {}
          /\ \A k \in 1..Len(xmlproblems) :
                \E j \in 1..Len(problems) : xmlproblems[k].id = Name(problems[j])
          /\ \A k \in Processed :
                FailsListedCheck(fs[problems[k]]) => Ignored(problems[k])
          /\ Len(log) + Len(xmlproblems) = i - 1
    /\ (pc = "aborted" /\ archivefile.exists) =>
          ~FailsListedCheck(fs[problems[i]])
    /\ pc = "done" =>
          /\ i = Len(problems) + 1
          /\ ~archivefile.open
          /\ archivefile.closes = 1
          /\ archivefile.entries[Len(archivefile.entries)].arcname = sContentXml
          /\ Len(archivefile.entries) = Len(xmlproblems) + 1

C4_Witness ==
    /\ pc = "done"
    /\ Len(problems) = 2
    /\ fs[problems[1]] = layMismatch
    /\ log = <<[p |-> problems[1], reason |-> "mismatch"]>>
    /\ Len(xmlproblems) = 1
    /\ xmlproblems[1].id = Name(problems[2])
    /\ Len(archivefile.entries) = 2

(***************************************************************************)
(* C5: the candidates are sorted by path before the timeouts are paired    *)
(* with them: the Problem elements are in ascending directory order        *)
(* whatever the order given, and each Timeout attribute is the decimal     *)
(* string of the resolved timeout at the problem's index in the sorted     *)
(* list of all candidates.  Problems A and B with timeout 5 and one pair   *)
(* 1.in/1.out give exactly two Problem elements, A then B, with one Test   *)
(* each and Timeout "5".                                                   *)
(***************************************************************************)
\* The Problem elements from mi on are those of candidates at increasing
\* indexes from pi on, each with the timeout at that index.
RECURSIVE Embeds(_, _)
Embeds(mi, pi) ==
    IF mi > Len(xmlproblems) THEN TRUE
    ELSE \E j \in pi..(i - 1) :
            /\ xmlproblems[mi].id = Name(problems[j])
            /\ DecimalValue(xmlproblems[mi].Timeout) = timeouts.items[j].v
            /\ Embeds(mi + 1, j + 1)

Occurrences(seq, x) == Cardinality({k \in 1..Len(seq) : seq[k] = x})

TwoProblemsExample ==
    /\ Len(args.problems) = 2
    /\ {args.problems[1], args.problems[2]} = {<<sA>>, <<sB>>}
    /\ fs[<<sA>>] = layOk
    /\ fs[<<sB>>] = layOk
    /\ args.timeouts \in {IntArg(5), ListArg(<<IntElem(5)>>),
                          ListArg(<<IntElem(5), IntElem(5)>>)}

C5_SortedBeforePairing ==
    /\ Running =>
          /\ \A a, b \in 1..Len(problems) : a < b => ~PathLess(problems[b], problems[a])
          /\ Len(problems) = Len(args.problems)
          /\ \A k \in 1..Len(problems) :
                Occurrences(problems, problems[k]) = Occurrences(args.problems, problems[k])
          /\ timeouts.items = Documented(args.timeouts, Len(problems))
             \/ ~ValidShape(args.timeouts, Len(problems))
          /\ Embeds(1, 1)
    /\ (pc = "done" /\ TwoProblemsExample) =>
          /\ Len(xmlproblems) = 2
          /\ xmlproblems[1].id = sA
          /\ xmlproblems[2].id = sB
          /\ \A k \in 1..2 : /\ xmlproblems[k].Timeout = <<53>>
                             /\ Len(xmlproblems[k].Tests) = 1
                             /\ Len(TestsOf(xmlproblems[k])) = 1

C5_Witness ==
    /\ pc = "done"
    /\ TwoProblemsExample
    /\ args.problems = << <<sB>>, <<sA>> >>
    /\ Len(xmlproblems) = 2

(***************************************************************************)
(* C6: a problem that passes checks 1 to 6 is accepted if and only if the  *)
(* sorted sequence of its .in stems equals the sorted sequence of its .out *)
(* stems; in every accepted problem each Test element pairs an input and   *)
(* an output of the same stem.                                             *)
(***************************************************************************)
PassesChecks1To6(p, lay) ==
    /\ lay.isdir
    /\ IsUpperLetter(Name(p))
    /\ lay.desc
    /\ lay.tests
    /\ InFiles(lay) # {}
    /\ OutFiles(lay) # {}

C6_AcceptedIffStemsEqual ==
    Running =>
        /\ \A k \in Processed :
              PassesChecks1To6(problems[k], fs[problems[k]]) =>
                 (~Ignored(problems[k]) <=>
                     SortedStems(InStems(fs[problems[k]]))
                        = SortedStems(OutStems(fs[problems[k]])))
        /\ \A k \in 1..Len(xmlproblems) : \A t \in 1..Len(TestsOf(xmlproblems[k])) :
              Stem(TestsOf(xmlproblems[k])[t].input) = Stem(TestsOf(xmlproblems[k])[t].output)

(***************************************************************************)
(* C7: for a surviving problem of letter L, every stem s with both s.in    *)
(* and s.out in its tests directory is exactly one Test element            *)
(* (L.tests.s, s.in, s.out); L/tests/s/s.in, L/tests/s/s.out and           *)
(* L/description.html are staged and archived; and no Test element is of   *)
(* a stem that is not in the tests directory.                              *)
(***************************************************************************)
BothStems(lay) == {s \in InStems(lay) : s \in OutStems(lay)}

Survivors == {k \in Processed : ~Ignored(problems[k])}

ExpectedFiles(L, lay) ==
    {<<L, sDescription>>}
    \cup {<<L, sTests, s, s \o extIn>> : s \in BothStems(lay)}
    \cup {<<L, sTests, s, s \o extOut>> : s \in BothStems(lay)}

C7_RoundTrip ==
    \A k \in Survivors :
        LET L == Name(problems[k])
            lay == fs[problems[k]]
        IN  /\ CountIds(L) = 1
            /\ \A m \in 1..Len(xmlproblems) : xmlproblems[m].id = L =>
                  LET tests == TestsOf(xmlproblems[m])
                  IN  /\ \A s \in BothStems(lay) :
                            /\ Cardinality({t \in 1..Len(tests) :
                                  tests[t].id = L \o sDotTests \o <<46>> \o s}) = 1
                            /\ \A t \in 1..Len(tests) :
                                  tests[t].id = L \o sDotTests \o <<46>> \o s =>
                                     /\ tests[t].input = s \o extIn
                                     /\ tests[t].output = s \o extOut
                      /\ Len(tests) = Cardinality(BothStems(lay))
                      /\ \A t \in 1..Len(tests) :
                            /\ tests[t].input \in lay.files
                            /\ tests[t].output \in lay.files
                            /\ Stem(tests[t].input) \in BothStems(lay)
            /\ CountEntries(L) = 1
            /\ \A e \in 1..Len(archivefile.entries) : archivefile.entries[e].arcname = L =>
                  ExpectedFiles(L, lay) \subseteq archivefile.entries[e].members
            /\ pc \in {"loop", "written"} => ExpectedFiles(L, lay) \subseteq tmpdir.files

C7_Witness ==
    /\ pc = "done"
    /\ Len(xmlproblems) = 1
    /\ xmlproblems[1].id = sA
    /\ Len(TestsOf(xmlproblems[1])) = 2
    /\ BothStems(fs[<<sA>>]) = {sOne, sOneDashTwo}

(***************************************************************************)
(* C8: after build_archive has ended, normally or by an error raised once  *)
(* the temporary directory was created, the temporary directory is gone.   *)
(***************************************************************************)
C8_TmpdirRemoved ==
    pc \in {"done", "aborted"} => ~tmpdir.exists /\ tmpdir.files = {}

C8_Witness ==
    /\ pc = "aborted"
    /\ error = "OSError"
    /\ archivefile.exists
    /\ Len(archivefile.entries) >= 1
    /\ ~tmpdir.exists

(***************************************************************************)
(* C9: every run either completes, the archive opened once, Content.xml    *)
(* added after all problem entries and the archive closed exactly once, or *)
(* aborts on an error raised before the archive is opened; no run aborts   *)
(* with the archive opened and not closed.                                 *)
(***************************************************************************)
C9_CompletesOrAbortsBeforeOpen ==
    /\ archivefile.opens <= 1
    /\ archivefile.closes <= 1
    /\ pc = "aborted" => ~archivefile.exists /\ archivefile.opens = 0
    /\ pc = "done" =>
          /\ archivefile.opens = 1
          /\ archivefile.closes = 1
          /\ ~archivefile.open
          /\ CountEntries(sContentXml) = 1
          /\ archivefile.entries[Len(archivefile.entries)].arcname = sContentXml

(***************************************************************************)
(* C10: in every accepted problem the Test elements are in lexicographic   *)
(* order of their stems, also when a stem is a prefix of another or holds  *)
(* a character ordered before '.', or a '.'.                               *)
(***************************************************************************)
C10_TestsOrderedByStem ==
    \A k \in 1..Len(xmlproblems) :
        LET tests == TestsOf(xmlproblems[k])
        IN  \A a, b \in 1..Len(tests) :
               a < b => StrLess(Stem(tests[a].input), Stem(tests[b].input))

====
